---- MODULE Spec2Model ----
(***************************************************************************)
(* huey: the Invoker and CommandSchedule of huey/queue.py, driven by the   *)
(* consumer (worker, scheduler, periodic loop) whose observable behaviour  *)
(* is pinned by huey/tests/consumer.py.                                    *)
(*                                                                         *)
(* Time is an integer clock.  A message is the tuple the registry writes   *)
(* to the queue, a command the object it is decoded to.  The result store  *)
(* is one key/value map that holds result records under task_id and revoke *)
(* records under revoke_id.                                                *)
(***************************************************************************)
EXTENDS Integers, Sequences, FiniteSets, TLC

\* ---------------------------------------------------------------- bounds
MaxTime == 2        \* the clock runs 0..MaxTime
MaxRetries == 2     \* retries a task may be declared with
MaxEnqueue == 1     \* producer calls (non-periodic tasks created)
MaxPeriodic == 2    \* activations of the periodic task
MaxDelay == 1       \* retry_delay a task may be declared with
MaxRevoked == 1     \* tasks that have a revoke record at one time
MaxReadErrors == 1  \* queue read errors the backend raises
MaxSchedIds == 2    \* task_ids of the commands added to the schedule directly
MaxGets == 3        \* get() calls on one AsyncData handle that return

\* ------------------------------------------------------- program constants
NoTime == -1        \* execute_time / revoke_until of None
PeriodicId == 0     \* task_id of the periodic task: its registry name
Workers == 2        \* Consumer(test_huey, workers=2)
key_name == "schedule"  \* CommandSchedule.__init__: key_name='schedule'

VARIABLES
    now,            \* the clock every loop reads
    queue,          \* DummyQueue._queue: sequence of messages
    schedule,       \* CommandSchedule._schedule: task_id -> command
    results,        \* DummyDataStore._results: key -> value
    events,         \* DummyEventEmitter._events, oldest first
    state,          \* the tests' global `state`: ids whose user code returned
    store_none,     \* Invoker.store_none
    has_result_store, \* Invoker.result_store is configured
    has_task_store, \* Invoker.task_store is configured
    next_id,        \* the next fresh task_id (uuid4 in the code)
    n_periodic,     \* periodic activations so far
    worker,         \* the worker thread: "running" | "crashed"
    read_errors,    \* queue read errors the backend has raised so far
    async_data,     \* the AsyncData handles the producers hold: task_id ->
                    \* [result: AsyncData._result, got: what each get() gave]
    worker_threads, \* Consumer.worker_threads, for the consumers whose
                    \* workers are followed step by step: thread ->
                    \* [pc, cmd, revoked]
    task_store      \* the task store the schedule is saved to: key -> value

vars == <<now, queue, schedule, results, events, state, store_none,
          has_result_store, has_task_store, next_id, n_periodic, worker,
          read_errors, async_data, worker_threads, task_store>>

\* ------------------------------------------------------------- registry
PeriodicTypes == {"every_hour"}
FailingTypes == {"retry_command"}
RegisteredTypes == {"modify_state", "retry_command", "every_hour"}

\* registry.get_message_for_command
get_message_for_command(c) ==
    <<c.type, c.task_id, c.execute_time, c.retries, c.retry_delay, c.data>>

\* registry.get_command_for_message; the caller checks the type is registered
get_command_for_message(m) ==
    [type |-> m[1], task_id |-> m[2], execute_time |-> m[3],
     retries |-> m[4], retry_delay |-> m[5], data |-> m[6]]

\* QueueCommand.__init__: revoke_id = 'r:%s' % task_id
revoke_id(task_id) == <<"r:", task_id>>

\* the key a result is stored under: the task_id itself
result_id(task_id) == <<"", task_id>>

NoCmd == [type |-> "", task_id |-> NoTime, execute_time |-> NoTime,
          retries |-> 0, retry_delay |-> 0, data |-> ""]

\* ------------------------------------------------------- result store
\* pickle.dumps / pickle.loads: a tagged value, lossless both ways
pickle_dumps(v) == <<"pickle", v>>
pickle_loads(b) == b[2]

EmptyData == "EmptyData"

\* DataStore.put(key, value)
store_put(store, key, value) ==
    [k \in DOMAIN store \cup {key} |-> IF k = key THEN value ELSE store[k]]

\* DataStore.peek(key): the value, or EmptyData
store_peek(store, key) ==
    IF key \in DOMAIN store
    THEN [empty |-> FALSE, value |-> store[key]]
    ELSE [empty |-> TRUE, value |-> EmptyData]

\* DataStore.get(key): what the store holds after the destructive read
store_remove(store, key) == [k \in DOMAIN store \ {key} |-> store[k]]

\* ------------------------------------------------------------- Invoker
\* _write that puts the message at the front of the queue
Invoker_write_front(q, msg) == <<msg>> \o q

\* Invoker._write: queue.write(msg), FIFO
Invoker_write(q, msg) == Append(q, msg)

\* _read that lets the backend's exception through unwrapped
Invoker_read_unwrapped(q, backend_error) ==
    IF backend_error
    THEN [exc |-> "IOError", msg |-> <<>>, queue |-> q]
    ELSE IF q = <<>>
         THEN [exc |-> "", msg |-> <<>>, queue |-> q]
         ELSE [exc |-> "", msg |-> Head(q), queue |-> Tail(q)]

\* Invoker._read: queue.read(); any backend exception is wrapped into a
\* QueueReadException.  [exc, msg, queue]; msg is <<>> for an empty queue.
Invoker_read(q, backend_error) ==
    IF backend_error
    THEN [exc |-> "QueueReadException", msg |-> <<>>, queue |-> q]
    ELSE IF q = <<>>
         THEN [exc |-> "", msg |-> <<>>, queue |-> q]
         ELSE [exc |-> "", msg |-> Head(q), queue |-> Tail(q)]

\* dequeue that decodes a message of any type
Invoker_dequeue_any(q, backend_error) == Invoker_read(q, backend_error)

\* Invoker.dequeue(): _read, then registry.get_command_for_message, which
\* raises QueueException for a type that is not registered (load_commands
\* catches it); the message is off the queue by then.  [exc, msg, queue]
Invoker_dequeue(q, backend_error) ==
    LET r == Invoker_read(q, backend_error) IN
    IF r.exc = "" /\ r.msg # <<>> /\ r.msg[1] \notin RegisteredTypes
    THEN [exc |-> "QueueException", msg |-> <<>>, queue |-> r.queue]
    ELSE r

\* Invoker._get(key, peek): [res, store]
Invoker_get(store, key, peek) ==
    [res |-> store_peek(store, key),
     store |-> IF peek THEN store ELSE store_remove(store, key)]

\* Invoker._put(key, value)
Invoker_put(store, key, value) == store_put(store, key, value)

\* ------------------------------------------------------------ AsyncData
\* AsyncData.__init__: a handle with _result = EmptyData
AsyncData_init(handles, task_id) ==
    [k \in DOMAIN handles \cup {task_id} |->
        IF k = task_id THEN [result |-> EmptyData, got |-> <<>>] ELSE handles[k]]

\* _get that reads the store on every call
AsyncData__get_nocache(result, store, task_id) ==
    LET g == Invoker_get(store, result_id(task_id), FALSE) IN
    IF ~g.res.empty
    THEN [res |-> pickle_loads(g.res.value),
          result |-> pickle_loads(g.res.value), store |-> g.store, lookups |-> 1]
    ELSE [res |-> EmptyData, result |-> result, store |-> g.store, lookups |-> 1]

\* AsyncData._get(): [res, result, store, lookups]: what it returns, the
\* _result it leaves, the store it leaves and the invoker._get calls it made
AsyncData__get(result, store, task_id) ==
    IF result = EmptyData
    THEN LET g == Invoker_get(store, result_id(task_id), FALSE) IN
         IF ~g.res.empty
         THEN [res |-> pickle_loads(g.res.value),
               result |-> pickle_loads(g.res.value),
               store |-> g.store, lookups |-> 1]
         ELSE [res |-> EmptyData, result |-> result, store |-> g.store,
               lookups |-> 1]
    ELSE [res |-> result, result |-> result, store |-> store, lookups |-> 0]

\* AsyncData.get(blocking), no timeout: [returned, value, result, store,
\* lookups].  Not blocking: one _get, and None when that gave EmptyData.
\* Blocking: one round of the loop `while self._result is EmptyData`; the
\* call returns _result once the loop ends and is still waiting otherwise.
AsyncData_get(result, store, task_id, blocking) ==
    IF ~blocking
    THEN LET r == AsyncData__get(result, store, task_id) IN
         [returned |-> TRUE,
          value |-> IF r.res # EmptyData THEN r.res ELSE "None",
          result |-> r.result, store |-> r.store, lookups |-> r.lookups]
    ELSE IF result # EmptyData
         THEN [returned |-> TRUE, value |-> result, result |-> result,
               store |-> store, lookups |-> 0]
         ELSE LET r == AsyncData__get(result, store, task_id) IN
              [returned |-> r.result # EmptyData, value |-> r.result,
               result |-> r.result, store |-> r.store, lookups |-> r.lookups]

\* command.execute(): the user code.  retry_command(always_fail=True) raises;
\* modify_state(k, v) returns v, and the periodic task returns what its data
\* says (None for every_hour); "None" is the value None.
command_execute(cmd) ==
    IF cmd.type \in FailingTypes
    THEN [raised |-> TRUE, result |-> "None"]
    ELSE [raised |-> FALSE, result |-> cmd.data]

\* Invoker.execute without the PeriodicQueueCommand test
Invoker_execute_periodic(cmd, store, storeNone, hasResultStore) ==
    LET r == command_execute(cmd) IN
    IF r.raised
    THEN [raised |-> TRUE, result |-> "None", store |-> store]
    ELSE IF r.result = "None" /\ ~storeNone
         THEN [raised |-> FALSE, result |-> "None", store |-> store]
         ELSE IF hasResultStore
              THEN [raised |-> FALSE, result |-> r.result,
                    store |-> Invoker_put(store, result_id(cmd.task_id),
                                          pickle_dumps(r.result))]
              ELSE [raised |-> FALSE, result |-> r.result, store |-> store]

\* Invoker.execute that swallows the exception of the user code
Invoker_execute_swallow(cmd, store, storeNone, hasResultStore) ==
    [raised |-> FALSE, result |-> "None", store |-> store]

\* Invoker.execute(command): [raised, result, store]
Invoker_execute(cmd, store, storeNone, hasResultStore) ==
    LET r == command_execute(cmd) IN
    IF r.raised
    THEN [raised |-> TRUE, result |-> "None", store |-> store]
    ELSE IF r.result = "None" /\ ~storeNone
         THEN [raised |-> FALSE, result |-> "None", store |-> store]
         ELSE IF hasResultStore /\ cmd.type \notin PeriodicTypes
              THEN [raised |-> FALSE, result |-> r.result,
                    store |-> Invoker_put(store, result_id(cmd.task_id),
                                          pickle_dumps(r.result))]
              ELSE [raised |-> FALSE, result |-> r.result, store |-> store]

\* The queue without the messages of one task
queue_without(q, cmd_id) == SelectSeq(q, LAMBDA m : m[2] # cmd_id)

\* revoke with the _remove of the queued message in place
Invoker_revoke_remove(store, q, hasResultStore, hasTaskStore, cmd_id, revoke_until, revoke_once) ==
    IF ~hasTaskStore
    THEN [exc |-> "QueueException", store |-> store, queue |-> q]
    ELSE [exc |-> "",
          store |-> Invoker_put(store, revoke_id(cmd_id),
                       pickle_dumps([revoke_until |-> revoke_until,
                                     revoke_once |-> revoke_once])),
          queue |-> queue_without(q, cmd_id)]

\* Invoker.revoke(command, revoke_until, revoke_once): [exc, store, queue].
\* The guard reads task_store; the record is put into result_store, and a put
\* on a result store that is not there is wrapped into DataStorePutException.
\* The queue is not touched: the _remove of the message is commented out.
Invoker_revoke(store, q, hasResultStore, hasTaskStore, cmd_id, revoke_until, revoke_once) ==
    IF ~hasTaskStore
    THEN [exc |-> "QueueException", store |-> store, queue |-> q]
    ELSE IF ~hasResultStore
         THEN [exc |-> "DataStorePutException", store |-> store, queue |-> q]
         ELSE [exc |-> "",
               store |-> Invoker_put(store, revoke_id(cmd_id),
                            pickle_dumps([revoke_until |-> revoke_until,
                                          revoke_once |-> revoke_once])),
               queue |-> q]

\* Invoker.restore(command): get and delete the revoke record if there
Invoker_restore(store, cmd_id) == Invoker_get(store, revoke_id(cmd_id), FALSE).store

\* is_revoked without the `revoke_until is None` test
is_revoked_no_none(store, hasResultStore, cmd_id, dt, preserve) ==
    IF ~hasResultStore
    THEN [revoked |-> FALSE, store |-> store]
    ELSE LET g == Invoker_get(store, revoke_id(cmd_id), TRUE) IN
         IF g.res.empty
         THEN [revoked |-> FALSE, store |-> store]
         ELSE LET rec == pickle_loads(g.res.value) IN
              IF rec.revoke_once
              THEN [revoked |-> TRUE,
                    store |-> IF ~preserve THEN Invoker_restore(store, cmd_id)
                              ELSE store]
              ELSE [revoked |-> rec.revoke_until > dt, store |-> store]

\* is_revoked that never consumes a revoke_once record
is_revoked_keep(store, hasResultStore, cmd_id, dt, preserve) ==
    IF ~hasResultStore
    THEN [revoked |-> FALSE, store |-> store]
    ELSE LET g == Invoker_get(store, revoke_id(cmd_id), TRUE) IN
         IF g.res.empty
         THEN [revoked |-> FALSE, store |-> store]
         ELSE LET rec == pickle_loads(g.res.value) IN
              IF rec.revoke_once
              THEN [revoked |-> TRUE, store |-> store]
              ELSE [revoked |-> rec.revoke_until = NoTime \/ rec.revoke_until > dt,
                    store |-> store]

\* is_revoked with revoke_until >= dt
is_revoked_ge(store, hasResultStore, cmd_id, dt, preserve) ==
    IF ~hasResultStore
    THEN [revoked |-> FALSE, store |-> store]
    ELSE LET g == Invoker_get(store, revoke_id(cmd_id), TRUE) IN
         IF g.res.empty
         THEN [revoked |-> FALSE, store |-> store]
         ELSE LET rec == pickle_loads(g.res.value) IN
              IF rec.revoke_once
              THEN [revoked |-> TRUE,
                    store |-> IF ~preserve THEN Invoker_restore(store, cmd_id)
                              ELSE store]
              ELSE [revoked |-> rec.revoke_until = NoTime \/ rec.revoke_until >= dt,
                    store |-> store]

\* is_revoked with the result_store test inverted
is_revoked_never(store, hasResultStore, cmd_id, dt, preserve) ==
    [revoked |-> FALSE, store |-> store]

\* is_revoked that clears a time-bounded record once its time has passed
is_revoked_expire(store, hasResultStore, cmd_id, dt, preserve) ==
    IF ~hasResultStore
    THEN [revoked |-> FALSE, store |-> store]
    ELSE LET g == Invoker_get(store, revoke_id(cmd_id), TRUE) IN
         IF g.res.empty
         THEN [revoked |-> FALSE, store |-> store]
         ELSE LET rec == pickle_loads(g.res.value) IN
              IF rec.revoke_once
              THEN [revoked |-> TRUE,
                    store |-> IF ~preserve THEN Invoker_restore(store, cmd_id)
                              ELSE store]
              ELSE IF rec.revoke_until = NoTime \/ rec.revoke_until > dt
                   THEN [revoked |-> TRUE, store |-> store]
                   ELSE [revoked |-> FALSE,
                         store |-> Invoker_restore(store, cmd_id)]

\* Invoker.is_revoked(command, dt, preserve): [revoked, store]
is_revoked(store, hasResultStore, cmd_id, dt, preserve) ==
    IF ~hasResultStore
    THEN [revoked |-> FALSE, store |-> store]
    ELSE LET g == Invoker_get(store, revoke_id(cmd_id), TRUE) IN
         IF g.res.empty
         THEN [revoked |-> FALSE, store |-> store]
         ELSE LET rec == pickle_loads(g.res.value) IN
              IF rec.revoke_once
              THEN [revoked |-> TRUE,
                    store |-> IF ~preserve THEN Invoker_restore(store, cmd_id)
                              ELSE store]
              ELSE [revoked |-> rec.revoke_until = NoTime \/ rec.revoke_until > dt,
                    store |-> store]

\* The first statements of is_revoked, up to the call of restore: the peek
\* of the record and what it decides.  [revoked, restore]: restore says that
\* restore(command) is the next thing is_revoked does.
is_revoked_peek(store, hasResultStore, cmd_id, dt, preserve) ==
    IF ~hasResultStore
    THEN [revoked |-> FALSE, restore |-> FALSE]
    ELSE LET g == Invoker_get(store, revoke_id(cmd_id), TRUE) IN
         IF g.res.empty
         THEN [revoked |-> FALSE, restore |-> FALSE]
         ELSE LET rec == pickle_loads(g.res.value) IN
              IF rec.revoke_once
              THEN [revoked |-> TRUE, restore |-> ~preserve]
              ELSE [revoked |-> rec.revoke_until = NoTime \/ rec.revoke_until > dt,
                    restore |-> FALSE]

\* ------------------------------------------------------ CommandSchedule
\* should_run with a strict comparison
should_run_strict(cmd, dt) == cmd.execute_time = NoTime \/ cmd.execute_time < dt

\* should_run with the comparison the wrong way round
should_run_inverted(cmd, dt) == cmd.execute_time = NoTime \/ cmd.execute_time >= dt

\* should_run that does not look at the execute_time
should_run_always(cmd, dt) == TRUE

\* CommandSchedule.should_run(cmd, dt)
should_run(cmd, dt) == cmd.execute_time = NoTime \/ cmd.execute_time <= dt

\* is_pending that finds every task pending
is_pending_always(sched, cmd) == TRUE

\* CommandSchedule.can_run(cmd, dt): not invoker.is_revoked(cmd, dt, False);
\* [ok, store]
can_run(store, hasResultStore, cmd, dt) ==
    LET r == is_revoked(store, hasResultStore, cmd.task_id, dt, FALSE) IN
    [ok |-> ~r.revoked, store |-> r.store]

\* CommandSchedule.is_pending(cmd)
is_pending(sched, cmd) == cmd.task_id \in DOMAIN sched

\* add that writes the entry whether or not the task is pending
add_replace(sched, cmd) ==
    [k \in DOMAIN sched \cup {cmd.task_id} |->
        IF k = cmd.task_id THEN cmd ELSE sched[k]]

\* add with the is_pending test inverted
add_inverted(sched, cmd) ==
    IF is_pending(sched, cmd)
    THEN [k \in DOMAIN sched \cup {cmd.task_id} |->
             IF k = cmd.task_id THEN cmd ELSE sched[k]]
    ELSE sched

\* CommandSchedule.add(cmd)
add(sched, cmd) ==
    IF ~is_pending(sched, cmd)
    THEN [k \in DOMAIN sched \cup {cmd.task_id} |->
             IF k = cmd.task_id THEN cmd ELSE sched[k]]
    ELSE sched

\* remove that leaves the entry in the schedule
remove_keep(sched, cmd) == sched

\* CommandSchedule.remove(cmd)
remove(sched, cmd) ==
    IF is_pending(sched, cmd)
    THEN [k \in DOMAIN sched \ {cmd.task_id} |-> sched[k]]
    ELSE sched

\* CommandSchedule.commands(): _schedule.values(), in the order `order` the
\* dict iterates its keys in
commands(sched, order) == [i \in DOMAIN order |-> sched[order[i]]]

\* CommandSchedule.serialize_commands()
serialize_commands(sched, order) ==
    LET cs == commands(sched, order) IN
    pickle_dumps([i \in DOMAIN cs |-> get_message_for_command(cs[i])])

\* CommandSchedule.save(): the task store after it
save(store, hasTaskStore, sched, order) ==
    IF hasTaskStore
    THEN store_put(store, key_name, serialize_commands(sched, order))
    ELSE store

\* the body of the loop with no test of the type
load_command_any(sched, cmd_string) ==
    add(sched, get_command_for_message(cmd_string))

\* The body of the loop of load_commands: get_command_for_message raises
\* QueueException for a type that is not registered, and the except clause
\* passes; a decoded command is added
load_command(sched, cmd_string) ==
    IF cmd_string[1] \notin RegisteredTypes
    THEN sched
    ELSE add(sched, get_command_for_message(cmd_string))

\* CommandSchedule.load_commands(messages)
RECURSIVE load_commands(_, _)
load_commands(sched, messages) ==
    IF messages = <<>> THEN sched
    ELSE load_commands(load_command(sched, Head(messages)), Tail(messages))

\* CommandSchedule.load(): [schedule, store]; task_store.get is the
\* destructive read
load(store, hasTaskStore, sched) ==
    IF ~hasTaskStore
    THEN [schedule |-> sched, store |-> store]
    ELSE LET serialized == store_peek(store, key_name) IN
         [schedule |-> IF ~serialized.empty
                       THEN load_commands(sched, pickle_loads(serialized.value))
                       ELSE sched,
          store |-> store_remove(store, key_name)]

\* --------------------------------------------------------------- worker
\* The part of the program state a handler reads and writes.
World == [queue |-> queue, schedule |-> schedule, results |-> results,
          events |-> events, state |-> state, ran |-> FALSE]

\* Huey.emit_task(status, task, error): one event appended to the emitter,
\* with the keys status, id, task, retries, retry_delay, execute_time, error
\* (the timestamp ts is left out)
emit_task(w, status, cmd, error) ==
    [w EXCEPT !.events = Append(@, [status |-> status, id |-> cmd.task_id,
                                    task |-> cmd.type,
                                    retries |-> cmd.retries,
                                    retry_delay |-> cmd.retry_delay,
                                    execute_time |-> cmd.execute_time,
                                    error |-> error])]

\* ConsumerThread.enqueue(task): write to the queue, emit 'enqueued'
consumer_enqueue(w, cmd) ==
    emit_task([w EXCEPT !.queue = Invoker_write(@, get_message_for_command(cmd))],
              "enqueued", cmd, FALSE)

\* ConsumerThread.add_schedule(task): schedule.add, emit 'scheduled'
add_schedule(w, cmd) ==
    emit_task([w EXCEPT !.schedule = add(@, cmd)], "scheduled", cmd, FALSE)

\* WorkerThread.requeue_task(task, ts)
requeue_task(w, cmd, ts) ==
    LET c == [cmd EXCEPT !.retries = @ - 1] IN
    IF c.retry_delay > 0
    THEN add_schedule(w, [c EXCEPT !.execute_time = ts + c.retry_delay])
    ELSE consumer_enqueue(w, c)

\* WorkerThread.process_task(task, ts)
process_task(w, cmd, ts) ==
    LET w1 == [emit_task(w, "started", cmd, FALSE) EXCEPT !.ran = TRUE]
        x == Invoker_execute(cmd, w1.results, store_none, has_result_store)
    IN  IF ~x.raised
        THEN emit_task([w1 EXCEPT !.results = x.store,
                                  !.state = @ \cup {cmd.task_id}],
                       "finished", cmd, FALSE)
        ELSE LET w2 == emit_task(w1, "error", cmd, TRUE) IN
             IF cmd.retries > 0
             THEN requeue_task(emit_task(w2, "retrying", cmd, FALSE), cmd, ts)
             ELSE w2

\* WorkerThread.handle_task(task, ts)
handle_task(w, cmd, ts) ==
    IF ~should_run(cmd, ts)
    THEN add_schedule(w, cmd)
    ELSE LET r == is_revoked(w.results, has_result_store, cmd.task_id, ts, FALSE)
             w1 == [w EXCEPT !.results = r.store]
         IN  IF ~r.revoked
             THEN process_task(w1, cmd, ts)
             ELSE emit_task(w1, "revoked", cmd, FALSE)

\* What the worker does with the result of a read: it catches the queue
\* exceptions (QueueReadException, QueueException) and nothing else.
worker_after_read(exc) ==
    IF exc \in {"", "QueueReadException", "QueueException"}
    THEN "running" ELSE "crashed"

\* ------------------------------------------------------------ scheduler
\* The due entries of the schedule at dt
due(sched, dt) == {k \in DOMAIN sched : should_run(sched[k], dt)}

\* SchedulerThread.loop(now) over the due entries in the order `order`:
\* each is removed from the schedule and enqueued
RECURSIVE scheduler_loop(_, _)
scheduler_loop(w, order) ==
    IF order = <<>> THEN w
    ELSE LET cmd == w.schedule[Head(order)] IN
         scheduler_loop(
             consumer_enqueue([w EXCEPT !.schedule = remove(@, cmd)], cmd),
             Tail(order))

\* The orders a set can be iterated in
Orders(S) == {o \in [1..Cardinality(S) -> S] : \A i, j \in DOMAIN o : i # j => o[i] # o[j]}

\* -------------------------------------------------------------- actions
EmptyMap == [k \in {} |-> NoCmd]

Init ==
    /\ now = 0
    /\ queue = <<>>
    /\ schedule = EmptyMap
    /\ results = EmptyMap
    /\ events = <<>>
    /\ state = {}
    /\ store_none \in BOOLEAN
    /\ has_result_store = TRUE
    /\ has_task_store = TRUE
    /\ next_id = 1
    /\ n_periodic = 0
    /\ worker = "running"
    /\ read_errors = 0
    /\ async_data = EmptyMap
    /\ worker_threads = EmptyMap
    /\ task_store = EmptyMap

\* The commands a producer creates: modify_state(k, v), possibly with an eta,
\* and retry_command(k) declared with some retries and retry_delay.
NewCommands(id) ==
    [type : {"modify_state"}, task_id : {id},
     execute_time : {NoTime} \cup (1..MaxTime), retries : {0},
     retry_delay : {0}, data : {"v", "None"}]
    \cup
    [type : {"retry_command"}, task_id : {id}, execute_time : {NoTime},
     retries : 0..MaxRetries, retry_delay : 0..MaxDelay, data : {"None"}]

\* Invoker.enqueue(command), always_eager off
Enqueue(cmd) ==
    /\ next_id <= MaxEnqueue
    /\ queue' = Invoker_write(queue, get_message_for_command(cmd))
    /\ next_id' = next_id + 1
    /\ async_data' = IF has_result_store
                     THEN AsyncData_init(async_data, cmd.task_id)
                     ELSE async_data
    /\ UNCHANGED <<now, schedule, results, events, state, store_none,
                   has_result_store, has_task_store, n_periodic, worker, read_errors,
                   worker_threads, task_store>>

\* PeriodicTaskThread.loop(now): the periodic task is enqueued under its
\* registry name
PeriodicLoop(data) ==
    /\ n_periodic < MaxPeriodic
    /\ LET cmd == [type |-> "every_hour", task_id |-> PeriodicId,
                   execute_time |-> NoTime, retries |-> 0, retry_delay |-> 0,
                   data |-> data]
       IN  queue' = Invoker_write(queue, get_message_for_command(cmd))
    /\ n_periodic' = n_periodic + 1
    /\ UNCHANGED <<now, schedule, results, events, state, store_none,
                   has_result_store, has_task_store, next_id, worker, read_errors,
                   async_data,
                   worker_threads, task_store>>

\* WorkerThread.check_message(): dequeue one message and handle it
CheckMessage(backend_error) ==
    /\ worker = "running"
    /\ backend_error => read_errors < MaxReadErrors
    /\ read_errors' = IF backend_error THEN read_errors + 1 ELSE read_errors
    /\ LET r == Invoker_dequeue(queue, backend_error) IN
       IF r.exc # "" \/ r.msg = <<>>
       THEN /\ worker' = worker_after_read(r.exc)
            /\ queue' = r.queue
            /\ UNCHANGED <<schedule, results, events, state>>
       ELSE LET cmd == get_command_for_message(r.msg)
                w == handle_task([World EXCEPT !.queue = r.queue], cmd, now)
            IN  /\ queue' = w.queue
                /\ schedule' = w.schedule
                /\ results' = w.results
                /\ events' = w.events
                /\ state' = w.state
                /\ worker' = worker
    /\ UNCHANGED <<now, store_none, has_result_store, has_task_store, next_id,
                   n_periodic, async_data,
                   worker_threads, task_store>>

\* SchedulerThread.loop(now)
SchedulerLoop ==
    /\ \E order \in Orders(due(schedule, now)) :
          LET w == scheduler_loop(World, order) IN
          /\ queue' = w.queue
          /\ schedule' = w.schedule
          /\ events' = w.events
    /\ UNCHANGED <<now, results, state, store_none, has_result_store,
                   has_task_store, next_id, n_periodic, worker, read_errors,
                   async_data,
                   worker_threads, task_store>>

\* The task ids a client holds a handle for
KnownIds == 0..(next_id - 1)

\* The task ids that have a revoke record in the result store
Revoked == {id \in KnownIds : revoke_id(id) \in DOMAIN results}

\* The arguments revoke is called with: revoke(), revoke(revoke_once=True),
\* revoke(revoke_until=T)
RevokeArgs ==
    {<<NoTime, FALSE>>, <<NoTime, TRUE>>} \cup {<<t, FALSE>> : t \in 1..MaxTime}

\* AsyncData.revoke() / Invoker.revoke(command, revoke_until, revoke_once)
Revoke(id, revoke_until, revoke_once) ==
    /\ Cardinality(Revoked \cup {id}) <= MaxRevoked
    /\ LET r == Invoker_revoke(results, queue, has_result_store, has_task_store,
                               id, revoke_until, revoke_once)
       IN  /\ results' = r.store
           /\ queue' = r.queue
    /\ UNCHANGED <<now, schedule, events, state, store_none,
                   has_result_store, has_task_store, next_id, n_periodic, worker,
                   read_errors, async_data,
                   worker_threads, task_store>>

\* AsyncData.restore() / Invoker.restore(command)
Restore(id) ==
    /\ results' = Invoker_restore(results, id)
    /\ UNCHANGED <<now, queue, schedule, events, state, store_none,
                   has_result_store, has_task_store, next_id, n_periodic, worker,
                   read_errors, async_data,
                   worker_threads, task_store>>

\* The clock advances
Tick ==
    /\ now < MaxTime
    /\ now' = now + 1
    /\ UNCHANGED <<queue, schedule, results, events, state, store_none,
                   has_result_store, has_task_store, next_id, n_periodic, worker,
                   read_errors, async_data,
                   worker_threads, task_store>>

Next ==
    \/ \E cmd \in NewCommands(next_id) : Enqueue(cmd)
    \/ \E data \in {"None", "y"} : PeriodicLoop(data)
    \/ \E e \in BOOLEAN : CheckMessage(e)
    \/ SchedulerLoop
    \/ \E id \in KnownIds, a \in RevokeArgs : Revoke(id, a[1], a[2])
    \/ \E id \in KnownIds : Restore(id)
    \/ Tick

Spec == Init /\ [][Next]_vars

\* Invoker.__init__(queue, result_store=None, task_store=None, store_none):
\* the consumer started on an Invoker with or without each of the two stores
InitConfig ==
    /\ now = 0
    /\ queue = <<>>
    /\ schedule = EmptyMap
    /\ results = EmptyMap
    /\ events = <<>>
    /\ state = {}
    /\ store_none \in BOOLEAN
    /\ has_result_store \in BOOLEAN
    /\ has_task_store \in BOOLEAN
    /\ next_id = 1
    /\ n_periodic = 0
    /\ worker = "running"
    /\ read_errors = 0
    /\ async_data = EmptyMap
    /\ worker_threads = EmptyMap
    /\ task_store = EmptyMap

SpecConfig == InitConfig /\ [][Next]_vars

\* res.get(blocking) on the handle of a task: the _result and the store it
\* leaves, and what the call gave to its caller
Get(id, blocking) ==
    /\ id \in DOMAIN async_data
    /\ Len(async_data[id].got) < MaxGets
    /\ LET g == AsyncData_get(async_data[id].result, results, id, blocking) IN
       /\ results' = g.store
       /\ async_data' =
             [async_data EXCEPT ![id] =
                 [result |-> g.result,
                  got |-> IF g.returned
                          THEN Append(@.got, [value |-> g.value,
                                              lookups |-> g.lookups])
                          ELSE @.got]]
    /\ UNCHANGED <<now, queue, schedule, events, state, store_none,
                   has_result_store, has_task_store, next_id, n_periodic, worker,
                   read_errors,
                   worker_threads, task_store>>

\* The producers, their handles, and the consumer without revocations
NextAsync ==
    \/ \E cmd \in NewCommands(next_id) : Enqueue(cmd)
    \/ \E e \in BOOLEAN : CheckMessage(e)
    \/ SchedulerLoop
    \/ \E id \in KnownIds, b \in BOOLEAN : Get(id, b)
    \/ Tick

SpecAsync == Init /\ [][NextAsync]_vars

\* The messages of a producer whose code has a task this consumer's registry
\* does not have
ForeignCommands(id) ==
    [type : {"old_command"}, task_id : {id},
     execute_time : {NoTime} \cup (1..MaxTime), retries : 0..MaxRetries,
     retry_delay : {0}, data : {"v"}]

\* queue.write by that producer
ForeignEnqueue(cmd) ==
    /\ next_id <= MaxEnqueue
    /\ queue' = Invoker_write(queue, get_message_for_command(cmd))
    /\ next_id' = next_id + 1
    /\ UNCHANGED <<now, schedule, results, events, state, store_none,
                   has_result_store, has_task_store, n_periodic, worker,
                   read_errors, async_data,
                   worker_threads, task_store>>

\* The consumer on a queue that other versions of the code write to too
NextForeign ==
    \/ \E cmd \in NewCommands(next_id) : Enqueue(cmd)
    \/ \E cmd \in ForeignCommands(next_id) : ForeignEnqueue(cmd)
    \/ \E data \in {"None", "y"} : PeriodicLoop(data)
    \/ \E e \in BOOLEAN : CheckMessage(e)
    \/ SchedulerLoop
    \/ Tick

SpecForeign == Init /\ [][NextForeign]_vars

\* The consumer with no revocations and no periodic tasks.  Its threads are loops that never end
\* (there is no shutdown): the worker's check_message, the scheduler's tick
\* and the clock each get their turn.
NextLive ==
    \/ \E cmd \in NewCommands(next_id) : Enqueue(cmd)
    \/ \E e \in BOOLEAN : CheckMessage(e)
    \/ SchedulerLoop
    \/ Tick

SpecLive ==
    /\ Init
    /\ [][NextLive]_vars
    /\ WF_vars(CheckMessage(FALSE))
    /\ WF_vars(SchedulerLoop)
    /\ WF_vars(Tick)

\* ---------------------------------------------------- two worker threads
\* Consumer.create_threads with workers=2: the worker threads, idle
InitWorkers ==
    /\ now = 0
    /\ queue = <<>>
    /\ schedule = EmptyMap
    /\ results = EmptyMap
    /\ events = <<>>
    /\ state = {}
    /\ store_none \in BOOLEAN
    /\ has_result_store = TRUE
    /\ has_task_store = TRUE
    /\ next_id = 1
    /\ n_periodic = 0
    /\ worker = "running"
    /\ read_errors = 0
    /\ async_data = EmptyMap
    /\ worker_threads = [t \in 1..Workers |->
                            [pc |-> "idle", cmd |-> NoCmd, ts |-> 0]]
    /\ task_store = EmptyMap

\* A worker thread reads a message off the queue (check_message) and starts
\* handle_task(task, ts): a task that is not due goes to the schedule, a due
\* one is about to be asked of is_revoked
ThreadDequeue(t) ==
    /\ worker_threads[t].pc = "idle"
    /\ LET r == Invoker_dequeue(queue, FALSE) IN
       /\ r.msg # <<>>
       /\ queue' = r.queue
       /\ LET cmd == get_command_for_message(r.msg) IN
          IF ~should_run(cmd, now)
          THEN LET w == add_schedule(World, cmd) IN
               /\ schedule' = w.schedule
               /\ events' = w.events
               /\ UNCHANGED worker_threads
          ELSE /\ worker_threads' =
                     [worker_threads EXCEPT
                         ![t] = [pc |-> "is_revoked", cmd |-> cmd, ts |-> now]]
               /\ UNCHANGED <<schedule, events>>
    /\ UNCHANGED <<now, results, state, store_none, has_result_store,
                   has_task_store, next_id, n_periodic, worker, read_errors,
                   async_data, task_store>>

\* The thread is in is_revoked(task, ts, False): it peeks the revoke record
ThreadPeek(t) ==
    /\ worker_threads[t].pc = "is_revoked"
    /\ LET th == worker_threads[t]
           r == is_revoked_peek(results, has_result_store, th.cmd.task_id,
                                th.ts, FALSE)
       IN  worker_threads' =
              [worker_threads EXCEPT
                  ![t].pc = IF r.restore THEN "restore"
                            ELSE IF r.revoked THEN "revoked" ELSE "process"]
    /\ UNCHANGED <<now, queue, schedule, results, events, state, store_none,
                   has_result_store, has_task_store, next_id, n_periodic, worker,
                   read_errors, async_data, task_store>>

\* The thread is in is_revoked and has found a revoke_once record: it calls
\* restore(command), the destructive get of the record
ThreadRestore(t) ==
    /\ worker_threads[t].pc = "restore"
    /\ results' = Invoker_restore(results, worker_threads[t].cmd.task_id)
    /\ worker_threads' = [worker_threads EXCEPT ![t].pc = "revoked"]
    /\ UNCHANGED <<now, queue, schedule, events, state, store_none,
                   has_result_store, has_task_store, next_id, n_periodic, worker,
                   read_errors, async_data, task_store>>

\* The rest of handle_task: 'revoked' for a revoked task, process_task for
\* the others
ThreadFinish(t) ==
    /\ worker_threads[t].pc \in {"revoked", "process"}
    /\ LET th == worker_threads[t]
           w == IF th.pc = "revoked"
                THEN emit_task(World, "revoked", th.cmd, FALSE)
                ELSE process_task(World, th.cmd, th.ts)
       IN  /\ queue' = w.queue
           /\ schedule' = w.schedule
           /\ results' = w.results
           /\ events' = w.events
           /\ state' = w.state
    /\ worker_threads' =
          [worker_threads EXCEPT ![t] = [pc |-> "idle", cmd |-> NoCmd, ts |-> 0]]
    /\ UNCHANGED <<now, store_none, has_result_store, has_task_store, next_id,
                   n_periodic, worker, read_errors, async_data, task_store>>

\* revoke(task, revoke_once=True), called before any activation is handled
RevokeOnce(id) ==
    /\ events = <<>>
    /\ \A t \in DOMAIN worker_threads : worker_threads[t].pc = "idle"
    /\ Revoke(id, NoTime, TRUE)

\* The periodic task, a client that revokes it once, and the worker threads
NextWorkers ==
    \/ \E data \in {"None", "y"} : PeriodicLoop(data)
    \/ \E id \in KnownIds : RevokeOnce(id)
    \/ \E t \in 1..Workers : ThreadDequeue(t)
    \/ \E t \in 1..Workers : ThreadPeek(t)
    \/ \E t \in 1..Workers : ThreadRestore(t)
    \/ \E t \in 1..Workers : ThreadFinish(t)
    \/ Tick

SpecWorkers == InitWorkers /\ [][NextWorkers]_vars

\* ----------------------------------------------------- the schedule alone
\* The commands a caller adds to and removes from the schedule
ScheduleCommands(id) ==
    [type : {"modify_state"}, task_id : {id}, execute_time : 1..MaxTime,
     retries : 0..MaxRetries, retry_delay : 0..MaxDelay, data : {"v"}]

\* The commands of a registered type in the schedule of an earlier run
OldCommands(id) ==
    [type : {"modify_state"}, task_id : {id}, execute_time : 1..MaxTime,
     retries : {0}, retry_delay : {0}, data : {"old"}]

\* The schedules an earlier version of the program, which had the task
\* old_command too, can have saved
OldSchedules ==
    UNION {{f \in [D -> UNION {OldCommands(i) \cup ForeignCommands(i) : i \in D}] :
               \A i \in D : f[i].task_id = i} :
           D \in SUBSET (1..MaxSchedIds)}

\* A CommandSchedule of an Invoker with or without a task store; the store
\* is empty or holds the snapshot an earlier run has saved
InitSchedule ==
    /\ now = 0
    /\ queue = <<>>
    /\ schedule = EmptyMap
    /\ results = EmptyMap
    /\ events = <<>>
    /\ state = {}
    /\ store_none = FALSE
    /\ has_result_store = TRUE
    /\ has_task_store \in BOOLEAN
    /\ next_id = 1
    /\ n_periodic = 0
    /\ worker = "running"
    /\ read_errors = 0
    /\ async_data = EmptyMap
    /\ worker_threads = EmptyMap
    /\ task_store \in
          IF has_task_store
          THEN {EmptyMap} \cup
               UNION {{save(EmptyMap, TRUE, old, o) : o \in Orders(DOMAIN old)} :
                      old \in OldSchedules}
          ELSE {EmptyMap}

\* schedule.add(cmd)
ScheduleAdd(cmd) ==
    /\ schedule' = add(schedule, cmd)
    /\ UNCHANGED <<now, queue, results, events, state, store_none,
                   has_result_store, has_task_store, next_id, n_periodic, worker,
                   read_errors, async_data, worker_threads, task_store>>

\* schedule.remove(cmd)
ScheduleRemove(cmd) ==
    /\ schedule' = remove(schedule, cmd)
    /\ UNCHANGED <<now, queue, results, events, state, store_none,
                   has_result_store, has_task_store, next_id, n_periodic, worker,
                   read_errors, async_data, worker_threads, task_store>>

\* schedule.save()
ScheduleSave(order) ==
    /\ task_store' = save(task_store, has_task_store, schedule, order)
    /\ UNCHANGED <<now, queue, schedule, results, events, state, store_none,
                   has_result_store, has_task_store, next_id, n_periodic, worker,
                   read_errors, async_data, worker_threads>>

\* schedule.load()
ScheduleLoad ==
    /\ LET l == load(task_store, has_task_store, schedule) IN
       /\ schedule' = l.schedule
       /\ task_store' = l.store
    /\ UNCHANGED <<now, queue, results, events, state, store_none,
                   has_result_store, has_task_store, next_id, n_periodic, worker,
                   read_errors, async_data, worker_threads>>

\* CommandSchedule(invoker): a restart, the schedule in memory is empty
ScheduleNew ==
    /\ schedule' = EmptyMap
    /\ UNCHANGED <<now, queue, results, events, state, store_none,
                   has_result_store, has_task_store, next_id, n_periodic, worker,
                   read_errors, async_data, worker_threads, task_store>>

NextSchedule ==
    \/ \E id \in 1..MaxSchedIds : \E cmd \in ScheduleCommands(id) : ScheduleAdd(cmd)
    \/ \E id \in 1..MaxSchedIds : \E cmd \in ScheduleCommands(id) : ScheduleRemove(cmd)
    \/ \E order \in Orders(DOMAIN schedule) : ScheduleSave(order)
    \/ ScheduleLoad
    \/ ScheduleNew

SpecSchedule == InitSchedule /\ [][NextSchedule]_vars

\* ============================================================== claims
\* The events emitted for one task, oldest first
EventsOf(id) == SelectSeq(events, LAMBDA e : e.id = id)

\* The events of one status emitted for one task
StatusOf(id, status) == SelectSeq(events, LAMBDA e : e.id = id /\ e.status = status)

\* The positions of the queue that hold a message of one task
InQueue(id) == {i \in DOMAIN queue : get_command_for_message(queue[i]).task_id = id}

\* The producer-created tasks whose user code always fails and that retry
\* without delay, and that no handling found revoked
FailingNoDelay ==
    {id \in 1..(next_id - 1) :
        /\ StatusOf(id, "revoked") = <<>>
        /\ \/ \E i \in InQueue(id) :
                 LET c == get_command_for_message(queue[i]) IN
                 c.type \in FailingTypes /\ c.retry_delay = 0
           \/ \E i \in DOMAIN events :
                 /\ events[i].id = id
                 /\ events[i].task \in FailingTypes
                 /\ events[i].retry_delay = 0}

\* C1. Retry accounting: a task that always fails and retries without delay
\* is started and fails once per dequeue, the retries of the dequeued task
\* count down by one from the k it was enqueued with, and once the queue no
\* longer holds it there have been exactly k+1 'started' and k+1 'error'
\* events, the last with retries 0, and the schedule has no entry for it.
C1_RetryAccounting ==
    \A id \in FailingNoDelay :
        LET S == StatusOf(id, "started")
            E == StatusOf(id, "error")
        IN  /\ Len(S) = Len(E)
            /\ \A j \in DOMAIN S : S[j].retries = S[1].retries - (j - 1)
            /\ \A i \in InQueue(id) :
                  S # <<>> => queue[i][4] = S[Len(S)].retries - 1
            /\ Cardinality(InQueue(id)) <= 1
            /\ id \notin DOMAIN schedule
            /\ InQueue(id) = {} =>
                  /\ S # <<>>
                  /\ S[Len(S)].retries = 0
                  /\ Len(S) = S[1].retries + 1
                  /\ Len(E) = S[1].retries + 1

\* A task enqueued with MaxRetries retries has failed MaxRetries + 1 times and
\* is gone from the queue.
C1_Witness ==
    \E id \in FailingNoDelay :
        /\ InQueue(id) = {}
        /\ Len(StatusOf(id, "started")) = MaxRetries + 1
        /\ Len(StatusOf(id, "error")) = MaxRetries + 1
        /\ StatusOf(id, "started")[1].retries = MaxRetries

\* ------------------------------------------------- the handling of the head
\* The command at the head of the queue
HeadCmd == get_command_for_message(Head(queue))

\* What a worker that dequeues the head now leaves behind
Handling == handle_task([World EXCEPT !.queue = Tail(queue)], HeadCmd, now)

\* The statuses of the events a handling appends to the events of this state
Emitted(w) ==
    [i \in 1..(Len(w.events) - Len(events)) |-> w.events[Len(events) + i].status]

\* The positions of a queue that hold a message of one task
InQ(q, id) == {i \in DOMAIN q : q[i][2] = id}

\* The events of one task in an event log
EvOf(ev, id) == SelectSeq(ev, LAMBDA e : e.id = id)

\* A revoke record is stored for the task, and what it holds
HasRec(id) == revoke_id(id) \in DOMAIN results
RevRec(id) == pickle_loads(results[revoke_id(id)])

\* The task is due: it has no execute_time, or one that has come
Due(c) == c.execute_time = NoTime \/ c.execute_time <= now

\* The task is revoked as the revoke record reads at the time now
RevokedNow(id) ==
    /\ HasRec(id)
    /\ \/ RevRec(id).revoke_once
       \/ RevRec(id).revoke_until = NoTime
       \/ RevRec(id).revoke_until > now

\* C2. Schedule discipline: in every reachable state, handling a non-revoked
\* head of the queue whose execute_time > now does not execute it and puts it
\* in the schedule; a scheduler tick now leaves every entry with
\* now < execute_time in the schedule, writes no message and emits no event for
\* it, and writes every entry with now >= execute_time to the queue exactly
\* once and removes it from the schedule.
C2_ScheduleDiscipline ==
    /\ ( /\ queue # <<>>
         /\ HeadCmd.execute_time > now
         /\ ~RevokedNow(HeadCmd.task_id)
         /\ HeadCmd.task_id \notin DOMAIN schedule )
       => /\ ~Handling.ran
          /\ HeadCmd.task_id \in DOMAIN Handling.schedule
          /\ Handling.schedule[HeadCmd.task_id] = HeadCmd
          /\ Handling.state = state
          /\ Handling.results = results
          /\ Emitted(Handling) = <<"scheduled">>
    /\ \A order \in Orders(due(schedule, now)) :
          LET w == scheduler_loop(World, order) IN
          \A id \in DOMAIN schedule :
              IF now < schedule[id].execute_time
              THEN /\ id \in DOMAIN w.schedule
                   /\ w.schedule[id] = schedule[id]
                   /\ Cardinality(InQ(w.queue, id)) = Cardinality(InQ(queue, id))
                   /\ EvOf(w.events, id) = EvOf(events, id)
              ELSE /\ id \notin DOMAIN w.schedule
                   /\ Cardinality(InQ(w.queue, id)) = Cardinality(InQ(queue, id)) + 1
                   /\ \E i \in InQ(w.queue, id) :
                         /\ i > Len(queue)
                         /\ w.queue[i] = get_message_for_command(schedule[id])

\* A task dequeued before its execute_time was scheduled, and a later tick has
\* moved it from the schedule back to the queue.
C2_Witness ==
    \E id \in 1..(next_id - 1) :
        /\ Len(EventsOf(id)) = 2
        /\ EventsOf(id)[1].status = "scheduled"
        /\ EventsOf(id)[1].task = "modify_state"
        /\ EventsOf(id)[2].status = "enqueued"
        /\ Cardinality(InQueue(id)) = 1
        /\ id \notin DOMAIN schedule
        /\ state = {}

\* The handling of the head once the revoke record of its task is restored
HandlingRestored ==
    handle_task([World EXCEPT !.queue = Tail(queue),
                              !.results = Invoker_restore(results, HeadCmd.task_id)],
                HeadCmd, now)

\* The revoke record of the head's task is the one revoke(task) writes:
\* no until, once = false
HeadRevokedIndefinitely ==
    /\ queue # <<>>
    /\ HasRec(HeadCmd.task_id)
    /\ ~RevRec(HeadCmd.task_id).revoke_once
    /\ RevRec(HeadCmd.task_id).revoke_until = NoTime

\* C3 as stated. Revoke-indefinite: while the record written by revoke(task)
\* is in the store, every handling of the task, whatever its execute_time and
\* the time, emits 'revoked', runs no user code and has no other effect; after
\* restore(task), is_revoked is false and a due activation runs the user code.
C3_Original ==
    /\ HeadRevokedIndefinitely
       => /\ ~Handling.ran
          /\ Emitted(Handling) = <<"revoked">>
          /\ Handling.state = state
          /\ Handling.results = results
          /\ Handling.schedule = schedule
          /\ Due(HeadCmd) => HandlingRestored.ran
    /\ \A id \in KnownIds :
          ~is_revoked(Invoker_restore(results, id), has_result_store, id, now,
                      TRUE).revoked

\* C3. Revoke-indefinite, amended: while the record written by revoke(task)
\* (no until, once = false) is in the store, handling an activation of the
\* task that is due (no execute_time, or execute_time <= now) emits only
\* 'revoked', does not run the user code and leaves the record where it is, so
\* that every later activation is suppressed too; handling it before its
\* execute_time does not run it either, but emits 'scheduled' and puts it in
\* the schedule; after restore(task), is_revoked is false and handling the due
\* activation runs the user code.
C3_RevokeIndefinite ==
    /\ (HeadRevokedIndefinitely /\ Due(HeadCmd))
       => /\ ~Handling.ran
          /\ Emitted(Handling) = <<"revoked">>
          /\ Handling.state = state
          /\ Handling.results = results
          /\ Handling.schedule = schedule
          /\ HandlingRestored.ran
          /\ Emitted(HandlingRestored)[1] = "started"
    /\ (HeadRevokedIndefinitely /\ ~Due(HeadCmd))
       => /\ ~Handling.ran
          /\ Emitted(Handling) = <<"scheduled">>
          /\ Handling.state = state
          /\ Handling.results = results
          /\ HeadCmd.task_id \in DOMAIN Handling.schedule
    /\ \A id \in KnownIds :
          ~is_revoked(Invoker_restore(results, id), has_result_store, id, now,
                      TRUE).revoked

\* Both activations of the periodic task were found revoked, at different
\* times, under one indefinite revoke record that is still in the store.
C3_Witness ==
    /\ HasRec(PeriodicId)
    /\ ~RevRec(PeriodicId).revoke_once
    /\ RevRec(PeriodicId).revoke_until = NoTime
    /\ Len(EventsOf(PeriodicId)) = MaxPeriodic
    /\ \A i \in DOMAIN EventsOf(PeriodicId) : EventsOf(PeriodicId)[i].status = "revoked"
    /\ now > 0

\* The handling of the same command again, right after the handling of the head
HandlingTwice == handle_task(Handling, HeadCmd, now)

\* The revoke record of the head's task is the one revoke(task, once = true)
\* writes
HeadRevokedOnce ==
    /\ queue # <<>>
    /\ HasRec(HeadCmd.task_id)
    /\ RevRec(HeadCmd.task_id).revoke_once

\* C4 as stated. Revoke-once: while the record written by
\* revoke(task, once = true) is in the store, the next handling of the task by
\* a worker, whatever its execute_time, does not run the user code and removes
\* the record; a due activation handled after that runs the user code.
C4_Original ==
    HeadRevokedOnce
    => /\ ~Handling.ran
       /\ Handling.state = state
       /\ revoke_id(HeadCmd.task_id) \notin DOMAIN Handling.results
       /\ Due(HeadCmd) => HandlingTwice.ran

\* C4. Revoke-once, amended: while the record written by
\* revoke(task, once = true) is in the store, handling an activation of the
\* task that is due (no execute_time, or execute_time <= now) does not run the
\* user code, emits 'revoked' and removes the record, and the activation
\* handled next, at the same time, runs the user code; handling it before its
\* execute_time does not run it, puts it in the schedule and leaves the record
\* in the store.
C4_RevokeOnce ==
    /\ (HeadRevokedOnce /\ Due(HeadCmd))
       => /\ ~Handling.ran
          /\ Emitted(Handling) = <<"revoked">>
          /\ Handling.state = state
          /\ revoke_id(HeadCmd.task_id) \notin DOMAIN Handling.results
          /\ HandlingTwice.ran
          /\ HandlingTwice.events[Len(events) + 2].status = "started"
    /\ (HeadRevokedOnce /\ ~Due(HeadCmd))
       => /\ ~Handling.ran
          /\ Emitted(Handling) = <<"scheduled">>
          /\ Handling.results = results
          /\ HeadCmd.task_id \in DOMAIN Handling.schedule

\* The first activation of the periodic task was suppressed, the second one
\* ran and the revoke record is gone.
C4_Witness ==
    /\ ~HasRec(PeriodicId)
    /\ Len(EventsOf(PeriodicId)) = 3
    /\ EventsOf(PeriodicId)[1].status = "revoked"
    /\ EventsOf(PeriodicId)[2].status = "started"
    /\ EventsOf(PeriodicId)[3].status = "finished"
    /\ PeriodicId \in state
    /\ now = 0

HeadSucceeds ==
    /\ queue # <<>>
    /\ HeadCmd.type \notin FailingTypes
    /\ Handling.ran

\* C6 as stated. At-most-one-result: after a successful execution of a
\* non-periodic task a result record exists under its task_id, whatever it
\* returned; after an execution of a periodic task none exists.
C6_Original ==
    HeadSucceeds
    => IF HeadCmd.type \in PeriodicTypes
       THEN result_id(HeadCmd.task_id) \notin DOMAIN Handling.results
       ELSE result_id(HeadCmd.task_id) \in DOMAIN Handling.results

\* C6. At-most-one-result, amended: after a successful execution of a
\* non-periodic task that returned a value other than None, or any value when
\* store_none is set, exactly one result record exists under its task_id and
\* holds the pickled value; when it returned None and store_none is not set,
\* the execution writes nothing to the store; an execution of a periodic task
\* writes nothing either and no record exists under its task_id, whatever the
\* value and whatever store_none.
C6_AtMostOneResult ==
    HeadSucceeds
    => /\ Emitted(Handling) = <<"started", "finished">>
       /\ IF HeadCmd.type \in PeriodicTypes
          THEN /\ Handling.results = results
               /\ result_id(HeadCmd.task_id) \notin DOMAIN Handling.results
          ELSE IF HeadCmd.data = "None" /\ ~store_none
               THEN Handling.results = results
               ELSE /\ result_id(HeadCmd.task_id) \in DOMAIN Handling.results
                    /\ pickle_loads(Handling.results[result_id(HeadCmd.task_id)])
                          = HeadCmd.data
                    /\ \A k \in DOMAIN results :
                          k # result_id(HeadCmd.task_id)
                          => k \in DOMAIN Handling.results
                             /\ Handling.results[k] = results[k]
                    /\ DOMAIN Handling.results
                          = DOMAIN results \cup {result_id(HeadCmd.task_id)}

\* A non-periodic task that returned None has finished without a result
\* record, and a periodic task that returned a value has finished without one.
C6_Witness ==
    /\ ~store_none
    /\ \E id \in 1..(next_id - 1) :
          /\ StatusOf(id, "finished") # <<>>
          /\ id \in state
          /\ result_id(id) \notin DOMAIN results
    /\ PeriodicId \in state
    /\ result_id(PeriodicId) \notin DOMAIN results

\* C7 as stated. Event order within one worker: the events of every handling
\* are 'started', then exactly one of 'error' | 'finished' | 'revoked' |
\* 'scheduled', then optionally 'retrying' followed by 'enqueued'.
C7_Original ==
    queue # <<>>
    => LET E == Emitted(Handling) IN
       /\ Len(E) \in {2, 4}
       /\ E[1] = "started"
       /\ E[2] \in {"error", "finished", "revoked", "scheduled"}
       /\ Len(E) = 4 => E[3] = "retrying" /\ E[4] = "enqueued"

\* C7. Event order within one worker, amended: a handling of a task whose
\* execute_time is in the future emits only 'scheduled'; otherwise a handling
\* of a revoked task emits only 'revoked'; otherwise the handling emits
\* 'started' and then exactly one of 'finished' | 'error', and an 'error' of a
\* task with retries left is followed by 'retrying' and then by 'enqueued'
\* when retry_delay = 0 and by 'scheduled' when retry_delay > 0.  'started' is
\* the first event exactly of the handlings that run the user code.
C7_EventOrder ==
    queue # <<>>
    => LET E == Emitted(Handling)
           c == HeadCmd
       IN  /\ Handling.ran <=> E[1] = "started"
           /\ IF ~Due(c) THEN E = <<"scheduled">>
              ELSE IF RevokedNow(c.task_id) THEN E = <<"revoked">>
              ELSE IF c.type \notin FailingTypes THEN E = <<"started", "finished">>
              ELSE IF c.retries = 0 THEN E = <<"started", "error">>
              ELSE IF c.retry_delay = 0
                   THEN E = <<"started", "error", "retrying", "enqueued">>
                   ELSE E = <<"started", "error", "retrying", "scheduled">>

\* The one event emitted so far is the 'revoked' of a handling, and a failed
\* task with a retry_delay has emitted started, error, retrying, scheduled.
C7_Witness ==
    /\ Len(events) >= 5
    /\ events[1].status = "revoked"
    /\ events[2].status = "started"
    /\ events[3].status = "error"
    /\ events[4].status = "retrying"
    /\ events[5].status = "scheduled"

\* The times a scheduler tick can come at after a delayed retry
TickTimes == 0..(MaxTime + MaxDelay)

\* C8. Retry with delay: when a task with retries = r > 0 and
\* retry_delay = d > 0 fails while being handled at time t0 = now, the schedule
\* then holds it with execute_time = t0 + d and retries = r - 1 and the queue
\* does not hold it; it is among the entries a scheduler tick at time t takes
\* exactly when t >= t0 + d, and the tick that takes it writes it to the queue
\* and removes it from the schedule.
C8_RetryWithDelay ==
    ( /\ queue # <<>>
      /\ HeadCmd.type \in FailingTypes
      /\ HeadCmd.retries > 0
      /\ HeadCmd.retry_delay > 0
      /\ Handling.ran
      /\ HeadCmd.task_id \notin DOMAIN schedule )
    => LET id == HeadCmd.task_id
           w == Handling
           c == [HeadCmd EXCEPT !.retries = HeadCmd.retries - 1,
                                !.execute_time = now + HeadCmd.retry_delay]
       IN  /\ id \in DOMAIN w.schedule
           /\ w.schedule[id] = c
           /\ InQ(w.queue, id) = InQ(Tail(queue), id)
           /\ w.queue = Tail(queue)
           /\ \A t \in TickTimes :
                 /\ id \in due(w.schedule, t) <=> t >= now + HeadCmd.retry_delay
                 /\ \A order \in Orders(due(w.schedule, t)) :
                       LET w2 == scheduler_loop(w, order) IN
                       IF t >= now + HeadCmd.retry_delay
                       THEN /\ id \notin DOMAIN w2.schedule
                            /\ w2.queue # <<>>
                            /\ \E i \in DOMAIN w2.queue :
                                  w2.queue[i] = get_message_for_command(c)
                       ELSE /\ id \in DOMAIN w2.schedule
                            /\ InQ(w2.queue, id) = InQ(w.queue, id)

\* A task declared with MaxRetries retries and a retry_delay has failed once at
\* time 0 and waits in the schedule with one retry less, for time retry_delay.
C8_Witness ==
    \E id \in DOMAIN schedule :
        /\ schedule[id].type \in FailingTypes
        /\ schedule[id].retries = MaxRetries - 1
        /\ schedule[id].retry_delay > 0
        /\ schedule[id].execute_time = schedule[id].retry_delay
        /\ InQueue(id) = {}
        /\ Len(StatusOf(id, "error")) = 1
        /\ now = 0

\* C9. A worker is never crashed by a user task exception or a queue read
\* error: the worker is running in every reachable state, whatever it handled
\* and whatever the backend raised; handling the head never fails and, when
\* the user code raises, reports it as exactly one 'error' event; and the
\* events with error = true are exactly the 'error' events.
C9_WorkerSurvives ==
    /\ worker = "running"
    /\ \A e \in BOOLEAN : worker_after_read(Invoker_read(queue, e).exc) = "running"
    /\ \A i \in DOMAIN events : events[i].error <=> events[i].status = "error"
    /\ (queue # <<>> /\ HeadCmd.type \in FailingTypes /\ Handling.ran)
       => /\ Emitted(Handling)[2] = "error"
          /\ Handling.events[Len(events) + 2].error
          /\ \A i \in 1..Len(Emitted(Handling)) :
                i # 2 => Emitted(Handling)[i] # "error"
                         /\ ~Handling.events[Len(events) + i].error

\* The backend has raised a read error, a user task has failed, and the worker
\* has gone on to start another task after it.
C9_Witness ==
    /\ worker = "running"
    /\ read_errors > 0
    /\ \E i, j \in DOMAIN events :
          /\ i < j
          /\ events[i].status = "error"
          /\ events[i].retries = 0
          /\ events[j].status = "started"

\* What a step of revoke(task, ...) leaves as it was
C10_Step ==
    \A id \in KnownIds, a \in RevokeArgs :
        Revoke(id, a[1], a[2])
        => /\ queue' = queue
           /\ schedule' = schedule
           /\ events' = events
           /\ state' = state
           /\ revoke_id(id) \in DOMAIN results'

\* C10. revoke(task, ...) leaves the queue unchanged: a step of revoke changes
\* neither the queue nor the schedule, the events or the user state, so a
\* message of the task that is in the queue is still there afterwards; the
\* revocation shows only when a worker handles the message.
C10_RevokeLeavesQueue == [][C10_Step]_vars

\* A task has a revoke record while its message is still in the queue.
C10_Witness ==
    \E id \in 1..(next_id - 1) :
        /\ HasRec(id)
        /\ InQueue(id) # {}
        /\ EventsOf(id) = <<>>

\* ------------------------------------------------------------ revoke(task)
\* What revoke(task, until, once) called now raises and leaves in the store
Revoking(id, a) ==
    Invoker_revoke(results, queue, has_result_store, has_task_store, id, a[1], a[2])

\* C11. revoke(task) fails with a configuration error exactly when no
\* ResultStore is configured, and then writes no record; when a ResultStore is
\* configured it succeeds and writes the record (revoke_until, revoke_once)
\* under revoke_id, whether or not a task store is configured.
C11_RevokeConfig ==
    \A id \in KnownIds, a \in RevokeArgs :
        LET r == Revoking(id, a) IN
        /\ r.exc = "QueueException" <=> ~has_result_store
        /\ r.exc # "" => r.store = results
        /\ has_result_store
           => /\ r.exc = ""
              /\ revoke_id(id) \in DOMAIN r.store
              /\ pickle_loads(r.store[revoke_id(id)])
                    = [revoke_until |-> a[1], revoke_once |-> a[2]]

\* ---------------------------------------------------------- AsyncData.get
\* C12. AsyncResult caching: once a get() on a handle has obtained a value
\* from the ResultStore, every later get() on that handle, blocking or not,
\* returns that value, makes no lookup in the store and changes neither the
\* store nor the handle, although the lookup that obtained the value was a
\* destructive read that removed the record; the get() calls before it each
\* made one lookup and found nothing.
C12_AsyncCaching ==
    \A id \in DOMAIN async_data :
        LET h == async_data[id] IN
        IF h.result = EmptyData
        THEN \A i \in DOMAIN h.got : h.got[i] = [value |-> "None", lookups |-> 1]
        ELSE /\ result_id(id) \notin DOMAIN results
             /\ \A b \in BOOLEAN :
                   LET g == AsyncData_get(h.result, results, id, b) IN
                   /\ g.returned
                   /\ g.value = h.result
                   /\ g.lookups = 0
                   /\ g.store = results
                   /\ g.result = h.result
             /\ \E k \in DOMAIN h.got :
                   /\ h.got[k] = [value |-> h.result, lookups |-> 1]
                   /\ \A j \in DOMAIN h.got :
                         /\ j < k => h.got[j] = [value |-> "None", lookups |-> 1]
                         /\ j > k => h.got[j] = [value |-> h.result, lookups |-> 0]

\* A handle was asked before the task had run and got nothing, then obtained
\* the value 'v' with one lookup, which removed the record, and a later get()
\* returned 'v' without a lookup.
C12_Witness ==
    \E id \in DOMAIN async_data :
        /\ async_data[id].result = "v"
        /\ async_data[id].got = <<[value |-> "None", lookups |-> 1],
                                  [value |-> "v", lookups |-> 1],
                                  [value |-> "v", lookups |-> 0]>>
        /\ result_id(id) \notin DOMAIN results
        /\ id \in state

\* -------------------------------------------------------------- ownership
\* The tasks the producers have enqueued, one message each
ProducerIds == 1..(next_id - 1)

\* The statuses of the events of one task, oldest first
Statuses(id) == [i \in DOMAIN EventsOf(id) |-> EventsOf(id)[i].status]

\* The task is over: it has finished, was dropped as revoked, or failed with
\* no retry left (an 'error' that no 'retrying' follows)
Terminal(id) ==
    /\ EventsOf(id) # <<>>
    /\ Statuses(id)[Len(Statuses(id))] \in {"finished", "revoked", "error"}

\* How many holders the task has among the queue and the schedule
Held(id) == Cardinality(InQueue(id)) + (IF id \in DOMAIN schedule THEN 1 ELSE 0)

\* C13. Exclusive ownership: in every reachable state each live task is held
\* by exactly one of the queue and the schedule (the worker holds it only
\* within a handling) and a task that is over by none; a task is never in the
\* queue and in the schedule at the same time; while the worker executes the
\* head of the queue, neither the rest of the queue nor the schedule holds
\* that task; and the handling leaves a live task with exactly one holder.
C13_ExclusiveOwnership ==
    /\ \A id \in ProducerIds : Held(id) = IF Terminal(id) THEN 0 ELSE 1
    /\ \A id \in DOMAIN schedule : InQueue(id) = {}
    /\ (queue # <<>> /\ HeadCmd.task_id \in ProducerIds)
       => LET id == HeadCmd.task_id
              w == Handling
              last == w.events[Len(w.events)].status
          IN  /\ InQ(Tail(queue), id) = {}
              /\ id \notin DOMAIN schedule
              /\ Cardinality(InQ(w.queue, id))
                    + (IF id \in DOMAIN w.schedule THEN 1 ELSE 0)
                 = IF last \in {"finished", "revoked", "error"} THEN 0 ELSE 1

\* A task has been held by the queue, then by the schedule, then by the queue
\* again and then by the worker that ran it, and is now over and held by none.
C13_Witness ==
    \E id \in ProducerIds :
        /\ Statuses(id) = <<"scheduled", "enqueued", "started", "finished">>
        /\ Held(id) = 0
        /\ id \in state

\* ---------------------------------------------------- schedule membership
\* A worker dequeued the task before its execute_time: a 'scheduled' event
\* that is not the end of a retry
DequeuedFuture(id) ==
    \E i \in DOMAIN EventsOf(id) :
        /\ EventsOf(id)[i].status = "scheduled"
        /\ i = 1 \/ EventsOf(id)[i - 1].status # "retrying"

\* The task was deferred for a delayed retry, to a time t: a 'retrying' event
\* followed by 'scheduled' with execute_time t
DeferredRetry(id, t) ==
    \E i \in DOMAIN EventsOf(id) :
        /\ i > 1
        /\ EventsOf(id)[i - 1].status = "retrying"
        /\ EventsOf(id)[i].status = "scheduled"
        /\ EventsOf(id)[i].retry_delay > 0
        /\ EventsOf(id)[i].execute_time = t

\* C14 as stated. Schedule membership: in every reachable state a task is in
\* the schedule if and only if it was dequeued with a future execute_time, or
\* it was deferred for retry with retry_delay > 0 and its delayed execute_time
\* is greater than the current time.
C14_Original ==
    \A id \in KnownIds :
        id \in DOMAIN schedule
        <=> \/ DequeuedFuture(id)
            \/ \E t \in (now + 1)..(MaxTime + MaxDelay) : DeferredRetry(id, t)

\* C14. Schedule membership, amended: in every reachable state a task is in
\* the schedule if and only if the last event of the task is the 'scheduled'
\* of a worker that deferred it (it was dequeued with a future execute_time,
\* or it failed with retries left and retry_delay > 0) and no scheduler tick
\* has released it since.  The entry is the task as deferred, its
\* execute_time was greater than the time of the handling that added it, and
\* an entry whose execute_time has come stays in the schedule until the next
\* scheduler tick, which leaves exactly the entries with execute_time > now.
C14_ScheduleMembership ==
    /\ \A id \in KnownIds :
          /\ id \in DOMAIN schedule
             <=> /\ EventsOf(id) # <<>>
                 /\ Statuses(id)[Len(Statuses(id))] = "scheduled"
          /\ id \in DOMAIN schedule
             => LET e == EventsOf(id)[Len(EventsOf(id))] IN
                /\ schedule[id].task_id = id
                /\ schedule[id].execute_time = e.execute_time
                /\ schedule[id].retries = e.retries
                /\ schedule[id].execute_time # NoTime
                /\ DequeuedFuture(id)
                   \/ DeferredRetry(id, schedule[id].execute_time)
    /\ queue # <<>>
       => /\ DOMAIN schedule \subseteq DOMAIN Handling.schedule
          /\ \A id \in DOMAIN Handling.schedule \ DOMAIN schedule :
                /\ id = HeadCmd.task_id
                /\ Handling.schedule[id].execute_time > now
                /\ ~Due(HeadCmd)
                   \/ /\ Handling.ran
                      /\ HeadCmd.retries > 0
                      /\ HeadCmd.retry_delay > 0
                      /\ Handling.schedule[id].execute_time
                            = now + HeadCmd.retry_delay
    /\ \A order \in Orders(due(schedule, now)) :
          DOMAIN scheduler_loop(World, order).schedule
             = {id \in DOMAIN schedule : schedule[id].execute_time > now}

\* A task deferred for a delayed retry is still in the schedule although its
\* execute_time has passed: no scheduler tick has come since.
C14_Witness ==
    \E id \in DOMAIN schedule :
        /\ schedule[id].type \in FailingTypes
        /\ schedule[id].execute_time < now
        /\ DeferredRetry(id, schedule[id].execute_time)
        /\ InQueue(id) = {}

\* ------------------------------------------------------ unknown task type
\* The head of the queue is a message of a type that is not registered
HeadUnknown == queue # <<>> /\ Head(queue)[1] \notin RegisteredTypes

\* What a step of the worker on such a head does
C15_Step ==
    (HeadUnknown /\ CheckMessage(FALSE))
    => /\ queue' = Tail(queue)
       /\ events' = events
       /\ schedule' = schedule
       /\ results' = results
       /\ state' = state
       /\ worker' = "running"

\* What holds of unknown messages in every state
C15_Inv ==
    /\ worker = "running"
    /\ \A i \in DOMAIN events : events[i].task \in RegisteredTypes
    /\ \A id \in DOMAIN schedule : schedule[id].type \in RegisteredTypes
    /\ HeadUnknown
       => /\ Invoker_dequeue(queue, FALSE).exc = "QueueException"
          /\ Invoker_dequeue(queue, FALSE).queue = Tail(queue)
          /\ result_id(Head(queue)[2]) \notin DOMAIN results

\* C15. Unknown task type: when a worker dequeues a message whose type is
\* not registered, the message is removed from the queue and discarded, no
\* event is emitted, nothing is added to the schedule, the result store or
\* the user state, and the worker keeps running and goes on to the next
\* message; no event and no schedule entry ever names an unregistered type.
C15_UnknownTaskType == []C15_Inv /\ [][C15_Step]_vars

\* A producer's message has left the queue without a trace (no event, no
\* schedule entry, no result), and the worker has run the periodic task.
C15_Witness ==
    /\ next_id > 1
    /\ \A id \in ProducerIds :
          /\ EventsOf(id) = <<>>
          /\ InQueue(id) = {}
          /\ id \notin DOMAIN schedule
          /\ result_id(id) \notin DOMAIN results
    /\ PeriodicId \in state
    /\ worker = "running"

\* --------------------------------------------------------- dispatch order
\* The head of the queue has an execute_time that has not come
HeadFuture == queue # <<>> /\ ~Due(HeadCmd)

\* C16 as stated. Dispatch order: revocation is checked before the
\* execute_time, so handling a revoked task with a future execute_time emits
\* 'revoked' and leaves the schedule as it was; only a non-revoked task with a
\* future execute_time is added to the schedule.
C16_Original ==
    HeadFuture
    => IF RevokedNow(HeadCmd.task_id)
       THEN /\ Emitted(Handling) = <<"revoked">>
            /\ Handling.schedule = schedule
       ELSE /\ Emitted(Handling) = <<"scheduled">>
            /\ HeadCmd.task_id \in DOMAIN Handling.schedule

\* C16. Dispatch order, amended: the execute_time is checked before
\* revocation.  Handling a task with a future execute_time, revoked or not,
\* adds it to the schedule (the schedule grows by that one entry), emits only
\* 'scheduled' and neither reads away nor changes its revoke record; only the
\* handling of a due task looks at revocation, and then a revoked task emits
\* only 'revoked' and the schedule is unchanged.
C16_DispatchOrder ==
    /\ (HeadFuture /\ HeadCmd.task_id \notin DOMAIN schedule)
       => /\ Emitted(Handling) = <<"scheduled">>
          /\ DOMAIN Handling.schedule = DOMAIN schedule \cup {HeadCmd.task_id}
          /\ Cardinality(DOMAIN Handling.schedule)
                = Cardinality(DOMAIN schedule) + 1
          /\ Handling.schedule[HeadCmd.task_id] = HeadCmd
          /\ Handling.results = results
          /\ Handling.queue = Tail(queue)
          /\ ~Handling.ran
    /\ (queue # <<>> /\ Due(HeadCmd) /\ RevokedNow(HeadCmd.task_id))
       => /\ Emitted(Handling) = <<"revoked">>
          /\ Handling.schedule = schedule
          /\ Handling.queue = Tail(queue)
          /\ ~Handling.ran

\* A task that is revoked without limit and has a future execute_time was
\* handled and is in the schedule, with 'scheduled' as its only event.
C16_Witness ==
    \E id \in DOMAIN schedule :
        /\ HasRec(id)
        /\ ~RevRec(id).revoke_once
        /\ RevRec(id).revoke_until = NoTime
        /\ schedule[id].execute_time > now
        /\ Statuses(id) = <<"scheduled">>

\* ----------------------------------------------------------- retry events
\* Handling the head runs user code that fails, with retries left
HeadFailsWithRetries ==
    /\ queue # <<>>
    /\ HeadCmd.type \in FailingTypes
    /\ Handling.ran
    /\ HeadCmd.retries > 0

\* The events a handling appends to the events of this state
NewEvents(w) == [i \in 1..(Len(w.events) - Len(events)) |-> w.events[Len(events) + i]]

\* C17 as stated. Retry events: whenever a task fails with retries left,
\* whether retry_delay is 0 or > 0, the worker emits 'retrying' and then
\* 'enqueued' after the 'error' event, 'retrying' with the retries before the
\* decrement and 'enqueued' with the retries after it; when no retries
\* remain, neither event is emitted.
C17_Original ==
    (queue # <<>> /\ HeadCmd.type \in FailingTypes /\ Handling.ran)
    => IF HeadCmd.retries > 0
       THEN /\ Emitted(Handling) = <<"started", "error", "retrying", "enqueued">>
            /\ NewEvents(Handling)[3].retries = HeadCmd.retries
            /\ NewEvents(Handling)[4].retries = HeadCmd.retries - 1
       ELSE Emitted(Handling) = <<"started", "error">>

\* C17. Retry events, amended: whenever a task fails with retries left the
\* worker emits 'retrying' after the 'error' event, with the retries and the
\* execute_time the task was dequeued with, and then one more event with the
\* retries after the decrement: 'enqueued' when retry_delay is 0, the task
\* being written to the end of the queue, and 'scheduled' with
\* execute_time = now + retry_delay when retry_delay > 0, the task being
\* added to the schedule and not written to the queue; when no retries
\* remain, neither event is emitted and the task is in neither.
C17_RetryEvents ==
    /\ (HeadFailsWithRetries /\ HeadCmd.task_id \notin DOMAIN schedule)
       => LET E == NewEvents(Handling)
              c == [HeadCmd EXCEPT !.retries = HeadCmd.retries - 1]
              d == [c EXCEPT !.execute_time = now + HeadCmd.retry_delay]
          IN  /\ Len(E) = 4
              /\ E[2].status = "error"
              /\ E[3].status = "retrying"
              /\ E[3].retries = HeadCmd.retries
              /\ E[3].execute_time = HeadCmd.execute_time
              /\ E[4].retries = HeadCmd.retries - 1
              /\ IF HeadCmd.retry_delay = 0
                 THEN /\ E[4].status = "enqueued"
                      /\ E[4].execute_time = HeadCmd.execute_time
                      /\ Handling.queue
                            = Append(Tail(queue), get_message_for_command(c))
                      /\ Handling.schedule = schedule
                 ELSE /\ E[4].status = "scheduled"
                      /\ E[4].execute_time = now + HeadCmd.retry_delay
                      /\ Handling.queue = Tail(queue)
                      /\ HeadCmd.task_id \in DOMAIN Handling.schedule
                      /\ Handling.schedule[HeadCmd.task_id] = d
    /\ ( /\ queue # <<>>
         /\ HeadCmd.type \in FailingTypes
         /\ Handling.ran
         /\ HeadCmd.retries = 0 )
       => /\ Emitted(Handling) = <<"started", "error">>
          /\ Handling.queue = Tail(queue)
          /\ Handling.schedule = schedule

\* A task declared with MaxRetries retries and a retry_delay failed at time 1:
\* its events are started, error, retrying with MaxRetries and no
\* execute_time, and scheduled with one retry less for time 1 + retry_delay.
C17_Witness ==
    \E id \in ProducerIds :
        /\ Statuses(id) = <<"started", "error", "retrying", "scheduled">>
        /\ EventsOf(id)[3].retries = MaxRetries
        /\ EventsOf(id)[3].execute_time = NoTime
        /\ EventsOf(id)[4].retries = MaxRetries - 1
        /\ EventsOf(id)[4].retry_delay > 0
        /\ EventsOf(id)[4].execute_time = 1 + EventsOf(id)[4].retry_delay

\* ------------------------------------------- scheduler tick and revocation
\* The message of a schedule entry
EntryMsg(id) == get_message_for_command(schedule[id])

\* The 'enqueued' event of a schedule entry
EntryEnqueued(id) ==
    [status |-> "enqueued", id |-> id, task |-> schedule[id].type,
     retries |-> schedule[id].retries, retry_delay |-> schedule[id].retry_delay,
     execute_time |-> schedule[id].execute_time, error |-> FALSE]

\* C18 as stated. Scheduler tick and revocation: a tick at time now removes
\* every entry with execute_time <= now from the schedule, and writes it to
\* the queue, with an 'enqueued' event, only if it is not revoked as of now;
\* a due entry that is revoked is removed without being written.
C18_Original ==
    \A order \in Orders(due(schedule, now)) :
        LET w == scheduler_loop(World, order) IN
        \A id \in DOMAIN schedule :
            schedule[id].execute_time <= now
            => /\ id \notin DOMAIN w.schedule
               /\ IF can_run(results, has_result_store, schedule[id], now).ok
                  THEN /\ Cardinality(InQ(w.queue, id))
                            = Cardinality(InQ(queue, id)) + 1
                       /\ EvOf(w.events, id)
                            = Append(EvOf(events, id), EntryEnqueued(id))
                  ELSE /\ InQ(w.queue, id) = InQ(queue, id)
                       /\ EvOf(w.events, id) = EvOf(events, id)

\* C18. Scheduler tick and revocation, amended: a tick at time now removes
\* every entry with execute_time <= now from the schedule and writes it to the
\* end of the queue, with an 'enqueued' event, whether or not it is revoked;
\* the entries with execute_time > now stay, and the tick neither reads away
\* nor changes a revoke record.  A released entry that is revoked is dropped
\* by the worker that dequeues it, which emits 'revoked'.
C18_TickAndRevocation ==
    \A order \in Orders(due(schedule, now)) :
        LET w == scheduler_loop(World, order) IN
        /\ w.results = results
        /\ w.state = state
        /\ Len(w.queue) = Len(queue) + Cardinality(due(schedule, now))
        /\ \A id \in DOMAIN schedule :
              IF schedule[id].execute_time <= now
              THEN /\ id \notin DOMAIN w.schedule
                   /\ \E i \in (Len(queue) + 1)..Len(w.queue) :
                         w.queue[i] = EntryMsg(id)
                   /\ Cardinality(InQ(w.queue, id))
                         = Cardinality(InQ(queue, id)) + 1
                   /\ EvOf(w.events, id)
                         = Append(EvOf(events, id), EntryEnqueued(id))
                   /\ RevokedNow(id)
                      => LET h == handle_task(w, schedule[id], now) IN
                         /\ ~h.ran
                         /\ Len(h.events) = Len(w.events) + 1
                         /\ h.events[Len(h.events)].status = "revoked"
                         /\ h.events[Len(h.events)].id = id
              ELSE /\ id \in DOMAIN w.schedule
                   /\ w.schedule[id] = schedule[id]
                   /\ InQ(w.queue, id) = InQ(queue, id)
                   /\ EvOf(w.events, id) = EvOf(events, id)

\* A task with a revoke record that suppresses it now went through the
\* schedule and a tick has written it to the queue, where it is.
C18_Witness ==
    \E id \in ProducerIds :
        /\ RevokedNow(id)
        /\ Statuses(id) = <<"scheduled", "enqueued">>
        /\ InQueue(id) # {}
        /\ id \notin DOMAIN schedule

\* --------------------------------------------- is_revoked and the store
\* The times is_revoked is asked about
Times == 0..MaxTime

\* C19. is_revoked changes the ResultStore in one case only: it removes the
\* revoke record, and nothing else, when the record has revoke_once = true
\* and preserve = false.  With preserve = true, with no record, or for a
\* record with revoke_once = false (indefinite, or until = T whether or not T
\* has passed), it leaves the store as it is; so the handling of a due
\* activation leaves a record with revoke_once = false in the store, before T
\* and after it.
C19_IsRevokedFrame ==
    /\ \A id \in KnownIds, dt \in Times, preserve \in BOOLEAN :
          LET r == is_revoked(results, has_result_store, id, dt, preserve) IN
          IF HasRec(id) /\ RevRec(id).revoke_once /\ ~preserve
          THEN /\ r.revoked
               /\ r.store = store_remove(results, revoke_id(id))
               /\ DOMAIN r.store = DOMAIN results \ {revoke_id(id)}
          ELSE r.store = results
    /\ (queue # <<>> /\ HasRec(HeadCmd.task_id)
           /\ ~RevRec(HeadCmd.task_id).revoke_once)
       => /\ revoke_id(HeadCmd.task_id) \in DOMAIN Handling.results
          /\ Handling.results[revoke_id(HeadCmd.task_id)]
                = results[revoke_id(HeadCmd.task_id)]

\* The record of revoke(until = 1) is in the store at the end of the clock,
\* after one activation of the periodic task was suppressed (before time 1)
\* and one has run (at time 1 or later).
C19_Witness ==
    /\ now = MaxTime
    /\ HasRec(PeriodicId)
    /\ RevRec(PeriodicId) = [revoke_until |-> 1, revoke_once |-> FALSE]
    /\ Statuses(PeriodicId) = <<"revoked", "started", "finished">>

\* ------------------------------------------------ deferred tasks are run
\* The task is in the schedule, for a time the clock reaches, and has been
\* started n times
Deferred(id, n) ==
    /\ id \in DOMAIN schedule
    /\ schedule[id].execute_time <= MaxTime
    /\ Len(StatusOf(id, "started")) = n

\* No task has been or would now be executed before its execute_time
NeverEarly ==
    /\ \A i \in DOMAIN events :
          events[i].status = "started" => events[i].execute_time <= now
    /\ (queue # <<>> /\ Handling.ran) => Due(HeadCmd)

\* C20. Deferred tasks are eventually run: with the scheduler, a worker and
\* the clock each taking their turn, no shutdown and no revocation, every
\* task placed in the schedule (dequeued with a future execute_time, or
\* deferred for a delayed retry) for a time the clock reaches is eventually
\* written back to the queue and eventually executed; and no task is ever
\* executed at a time earlier than its execute_time.
C20_DeferredRun ==
    /\ \A id \in 1..MaxEnqueue, n \in 0..MaxRetries :
          /\ Deferred(id, n) ~> (InQueue(id) # {} /\ id \notin DOMAIN schedule)
          /\ Deferred(id, n) ~> (Len(StatusOf(id, "started")) > n)
    /\ []NeverEarly

\* A failed task was deferred for a delayed retry, a tick wrote it back to
\* the queue, and the worker has executed it again, not before its time.
C20_Witness ==
    \E id \in ProducerIds :
        /\ Len(Statuses(id)) >= 6
        /\ Statuses(id)[3] = "retrying"
        /\ Statuses(id)[4] = "scheduled"
        /\ Statuses(id)[5] = "enqueued"
        /\ Statuses(id)[6] = "started"
        /\ EventsOf(id)[6].execute_time > 0
        /\ EventsOf(id)[6].execute_time <= now

\* ------------------------------------------- revoke-once, two workers
\* Every activation of the periodic task has been handled
AllHandled ==
    /\ n_periodic = MaxPeriodic
    /\ queue = <<>>
    /\ \A t \in DOMAIN worker_threads : worker_threads[t].pc = "idle"

\* C21. Revoke-once under concurrency: with one revoke(task, once = true)
\* record and two workers that handle the activations of the task at the same
\* time, the record suppresses exactly one activation: there is never more
\* than one 'revoked' event, and once all activations are handled and one was
\* suppressed, every other one has run the user code.
C21_RevokeOnceConcurrent ==
    /\ Len(StatusOf(PeriodicId, "revoked")) <= 1
    /\ (AllHandled /\ StatusOf(PeriodicId, "revoked") # <<>>)
       => /\ Len(StatusOf(PeriodicId, "started")) = MaxPeriodic - 1
          /\ Len(StatusOf(PeriodicId, "finished")) = MaxPeriodic - 1
          /\ PeriodicId \in state

\* ------------------------------------------------- schedule persistence
\* A snapshot of the schedule is in the task store
Saved == has_task_store /\ key_name \in DOMAIN task_store

\* The messages of the snapshot
SavedMessages == IF Saved THEN pickle_loads(task_store[key_name]) ELSE <<>>

\* What load() puts into an empty schedule
Loaded == load(task_store, has_task_store, EmptyMap).schedule

\* C22. Schedule persistence round trip: load() into an empty schedule
\* restores an entry for every saved message whose type is registered, with
\* the saved task_id, execute_time, retries and retry_delay, skips the saved
\* messages whose type is not registered and restores nothing else; with
\* nothing saved it leaves the schedule empty; and what save() writes of the
\* schedule, in whatever order, load() reads back as that schedule.
C22_SchedulePersistence ==
    /\ ~Saved => Loaded = EmptyMap
    /\ \A i \in DOMAIN SavedMessages :
          LET m == SavedMessages[i] IN
          IF m[1] \in RegisteredTypes
          THEN /\ m[2] \in DOMAIN Loaded
               /\ Loaded[m[2]].type = m[1]
               /\ Loaded[m[2]].task_id = m[2]
               /\ Loaded[m[2]].execute_time = m[3]
               /\ Loaded[m[2]].retries = m[4]
               /\ Loaded[m[2]].retry_delay = m[5]
          ELSE m[2] \notin DOMAIN Loaded
    /\ \A k \in DOMAIN Loaded :
          \E i \in DOMAIN SavedMessages : SavedMessages[i][2] = k
    /\ \A o \in Orders(DOMAIN schedule) :
          LET st == save(task_store, has_task_store, schedule, o) IN
          IF has_task_store
          THEN load(st, has_task_store, EmptyMap).schedule = schedule
          ELSE st = task_store

\* load() has read the snapshot of an earlier run and restored one entry of
\* it, and save() has written the schedule back: the snapshot now holds
\* that entry alone
C22_Witness ==
    /\ Saved
    /\ DOMAIN schedule = {MaxSchedIds}
    /\ schedule[MaxSchedIds].data = "old"
    /\ schedule[MaxSchedIds].execute_time = MaxTime
    /\ SavedMessages = <<get_message_for_command(schedule[MaxSchedIds])>>
    /\ Loaded = schedule

\* ------------------------------------------------- one entry per task_id
\* C23. The schedule holds at most one entry per task_id, the one it is
\* keyed by: add(task) for a task_id that is pending leaves the schedule as
\* it is (the entry keeps its execute_time and retries), and for one that is
\* not pending adds this task; remove(task) for a task_id that is not
\* pending changes nothing, and for a pending one removes the entry.
C23_OneEntryPerTaskId ==
    /\ \A k \in DOMAIN schedule : schedule[k].task_id = k
    /\ \A id \in 1..MaxSchedIds : \A cmd \in ScheduleCommands(id) :
          /\ is_pending(schedule, cmd) <=> id \in DOMAIN schedule
          /\ IF is_pending(schedule, cmd)
             THEN /\ add(schedule, cmd) = schedule
                  /\ DOMAIN remove(schedule, cmd) = DOMAIN schedule \ {id}
             ELSE /\ remove(schedule, cmd) = schedule
                  /\ DOMAIN add(schedule, cmd) = DOMAIN schedule \cup {id}
                  /\ add(schedule, cmd)[id] = cmd
          /\ \A k \in DOMAIN schedule \ {id} :
                /\ add(schedule, cmd)[k] = schedule[k]
                /\ remove(schedule, cmd)[k] = schedule[k]

\* Every task_id is pending, and there is a task of a pending task_id with
\* another execute_time and other retries than the entry's
C23_Witness ==
    /\ DOMAIN schedule = 1..MaxSchedIds
    /\ \E cmd \in ScheduleCommands(1) :
          /\ cmd.execute_time # schedule[1].execute_time
          /\ cmd.retries # schedule[1].retries
          /\ add(schedule, cmd)[1] = schedule[1]

====
